---- MODULE Spec2Model ----
(***************************************************************************)
(* Model of src/analizador.py: generic multi-sheet KPI extraction.         *)
(*                                                                         *)
(* Text (column headers, text cells, keywords, the client substring) is a  *)
(* sequence of one-character strings, so that strip, lower and substring   *)
(* search are computed character by character.  The characters u-acute and *)
(* e-acute of the source are written "u_acute" and "e_acute".              *)
(*                                                                         *)
(* Units: money is an integer; a percentage rounded to two decimals is an  *)
(* integer number of hundredths (50.0 is 5000); a median of day counts is  *)
(* an integer number of half days (4.0 is 8); ticket_promedio, which the   *)
(* code does not round, is the fraction num/den.                           *)
(*                                                                         *)
(* A DataFrame is [n |-> number of rows, cols |-> sequence of columns],    *)
(* a column is [name |-> header, vals |-> sequence of n cells] (object     *)
(* dtype, cells as loaded).  Column labels are distinct.                   *)
(***************************************************************************)
EXTENDS Integers, Sequences, FiniteSets, TLC

VARIABLES
    astype_keeps_na,  \* pandas build: TRUE when Series.astype(str) keeps a missing
                      \* cell missing (pandas >= 3), FALSE when it writes "nan"/"None"
    data,             \* the dataset: sequence of sheets in dict iteration order, key = position
    cliente_contiene, \* the client substring
    pc,               \* "loop" while iterating data.items(), "done" after return
    pos,              \* number of items of data.items() already visited
    total_ing, total_cost, total_services, conversion, lead_time, hojas,
    report,           \* the returned dict (Null until pc = "done")
    call              \* the last direct call of a helper: [fn, df, arg, ret]

vars == <<astype_keeps_na, data, cliente_contiene, pc, pos, total_ing, total_cost,
          total_services, conversion, lead_time, hojas, report, call>>

-----------------------------------------------------------------------------
(* Bounds *)
MaxSheets == 2

-----------------------------------------------------------------------------
(* Optional values *)
Null == [null |-> TRUE, v |-> 0]
Some(x) == [null |-> FALSE, v |-> x]

(* Cells *)
Num(x) == [t |-> "num", n |-> x, s |-> <<>>]
Txt(x) == [t |-> "str", n |-> 0, s |-> x]
NaN == [t |-> "nan", n |-> 0, s |-> <<>>]
None == [t |-> "none", n |-> 0, s |-> <<>>]

isna(c) == c.t \in {"nan", "none"}

-----------------------------------------------------------------------------
(* Text *)
UpperChars == <<"A","B","C","D","E","F","G","H","I","J","K","L","M","N","O","P","Q","R","S","T","U","V","W","X","Y","Z">>
LowerChars == <<"a","b","c","d","e","f","g","h","i","j","k","l","m","n","o","p","q","r","s","t","u","v","w","x","y","z">>
Digits == <<"0","1","2","3","4","5","6","7","8","9">>

UpperSet == {UpperChars[i] : i \in 1..Len(UpperChars)}
LowerOf == [ch \in UpperSet |-> LowerChars[CHOOSE i \in 1..Len(UpperChars) : UpperChars[i] = ch]]

lowerChar(ch) == IF ch \in UpperSet THEN LowerOf[ch] ELSE ch

\* a sequence given as a function on 1..n, as a tuple
Tuple(f) == SubSeq(f, 1, Len(f))

lower(s) == Tuple([i \in 1..Len(s) |-> lowerChar(s[i])])

RECURSIVE lstrip(_)
lstrip(s) == IF s # <<>> /\ Head(s) = " " THEN lstrip(Tail(s)) ELSE s

RECURSIVE rstrip(_)
rstrip(s) == IF s # <<>> /\ s[Len(s)] = " " THEN rstrip(SubSeq(s, 1, Len(s) - 1)) ELSE s

strip(s) == rstrip(lstrip(s))

_norm(s) == lower(strip(s))

\* Python's `k in s` for strings
contains_lit(s, k) ==
    \E i \in 0..(Len(s) - Len(k)) : \A j \in 1..Len(k) : s[i + j] = k[j]

\* re.search(pat, s, IGNORECASE) for a pattern of literal characters and ".",
\* which matches any character
re_search_icase(s, pat) ==
    \E i \in 0..(Len(s) - Len(pat)) :
        \A j \in 1..Len(pat) :
            pat[j] = "." \/ lowerChar(pat[j]) = lowerChar(s[i + j])

any_in(keywords, c2) == \E i \in 1..Len(keywords) : contains_lit(c2, keywords[i])

DigitSet == {Digits[i] : i \in 1..Len(Digits)}
DigitValue == [ch \in DigitSet |-> (CHOOSE i \in 1..Len(Digits) : Digits[i] = ch) - 1]

\* s[a..b] is a non-empty run of digits
isDigits(s, a, b) == a <= b /\ \A i \in a..b : s[i] \in DigitSet

RECURSIVE digitsVal(_, _, _)
\* the number written by the digits s[a..b]
digitsVal(s, a, b) == IF b < a THEN 0 ELSE 10 * digitsVal(s, a, b - 1) + DigitValue[s[b]]

RECURSIVE natStr(_)
natStr(x) == IF x < 10 THEN <<Digits[x + 1]>> ELSE natStr(x \div 10) \o <<Digits[(x % 10) + 1]>>

\* str() of an integer
intStr(x) == IF x < 0 THEN <<"-">> \o natStr(-x) ELSE natStr(x)

-----------------------------------------------------------------------------
(* pandas primitives, per cell *)

\* pd.to_numeric(errors="coerce"): Null is NaN.  A text cell parses when it is
\* an optionally signed run of digits; the inputs hold no other numeric text.
to_numeric(c) ==
    CASE c.t = "num" -> Some(c.n)
      [] c.t = "str" /\ isDigits(c.s, 1, Len(c.s)) -> Some(digitsVal(c.s, 1, Len(c.s)))
      [] c.t = "str" /\ Len(c.s) > 1 /\ c.s[1] = "-" /\ isDigits(c.s, 2, Len(c.s)) ->
             Some(0 - digitsVal(c.s, 2, Len(c.s)))
      [] OTHER -> Null

\* Series.astype(str), per cell: Null is a cell that stays missing
astype_str(c, keeps_na) ==
    CASE c.t = "num" -> Some(intStr(c.n))
      [] c.t = "str" -> Some(c.s)
      [] c.t = "nan" -> IF keeps_na THEN Null ELSE Some(<<"n","a","n">>)
      [] OTHER -> IF keeps_na THEN Null ELSE Some(<<"N","o","n","e">>)

\* Series.str.contains(pat, case=False, na=False), per cell of astype(str)
str_contains_icase(sc, pat) == IF sc.null THEN FALSE ELSE re_search_icase(sc.v, pat)

\* Series.str.lower().str.contains(lit, na=False) for a pattern of letters
lower_contains(sc, lit) == IF sc.null THEN FALSE ELSE contains_lit(lower(sc.v), lit)

NaT == [nat |-> TRUE, day |-> 0, ns |-> 0]
Timestamp(d, x) == [nat |-> FALSE, day |-> d, ns |-> x]

DaysBeforeMonth == <<0, 31, 59, 90, 120, 151, 181, 212, 243, 273, 304, 334>>
DaysInMonth == <<31, 28, 31, 30, 31, 30, 31, 31, 30, 31, 30, 31>>

\* ISO text YYYY-MM-DD of the years 2000..2099 as a day number counted from 2000-01-01
isIsoDate(s) ==
    /\ Len(s) = 10 /\ s[5] = "-" /\ s[8] = "-"
    /\ isDigits(s, 1, 4) /\ isDigits(s, 6, 7) /\ isDigits(s, 9, 10)
    /\ LET y == digitsVal(s, 1, 4)
           m == digitsVal(s, 6, 7)
           d == digitsVal(s, 9, 10)
       IN /\ y \in 2000..2099 /\ m \in 1..12 /\ d >= 1
          /\ d <= DaysInMonth[m] + (IF m = 2 /\ y % 4 = 0 THEN 1 ELSE 0)

isoDay(s) ==
    LET y == digitsVal(s, 1, 4)
        m == digitsVal(s, 6, 7)
        d == digitsVal(s, 9, 10)
    IN 365 * (y - 2000) + ((y - 2000) + 3) \div 4 + DaysBeforeMonth[m]
       + (IF m > 2 /\ y % 4 = 0 THEN 1 ELSE 0) + (d - 1)

\* pd.to_datetime(errors="coerce"), per cell: a number is nanoseconds since the
\* epoch (1970-01-01 is day -10957 from 2000-01-01), far less than a day of them
to_datetime(c) ==
    CASE c.t = "num" -> Timestamp(0 - 10957, c.n)
      [] c.t = "str" /\ isIsoDate(c.s) -> Timestamp(isoDay(c.s), 0)
      [] OTHER -> NaT

\* (e - s).dt.days, per row: Null is NaN; a timedelta's days are floored
delta_days(e, s) ==
    IF e.nat \/ s.nat THEN Null
    ELSE Some((e.day - s.day) - (IF e.ns < s.ns THEN 1 ELSE 0))

\* Python's round(num/den*100, 2) in hundredths, den # 0: nearest, ties to even
round2_pct(num, den) ==
    LET a == IF den < 0 THEN 0 - num ELSE num
        b == IF den < 0 THEN 0 - den ELSE den
        n == a * 10000
        q == n \div b
        r == n % b
    IN IF 2 * r > b \/ (2 * r = b /\ q % 2 = 1) THEN q + 1 ELSE q

-----------------------------------------------------------------------------
(* Sequence helpers *)
RECURSIVE SumSeq(_)
SumSeq(s) == IF s = <<>> THEN 0 ELSE Head(s) + SumSeq(Tail(s))

RECURSIVE SelectIdx(_, _, _)
\* the cells vals[i] with keep[i], in order (boolean-mask indexing)
SelectIdx(vals, keep, i) ==
    IF i > Len(vals) THEN <<>>
    ELSE (IF keep[i] THEN <<vals[i]>> ELSE <<>>) \o SelectIdx(vals, keep, i + 1)

CountTrue(f) == Cardinality({i \in DOMAIN f : f[i]})

\* Series.median() of a non-empty sequence of integers, in halves
median2(s) ==
    LET o == SortSeq(s, LAMBDA a, b : a < b)
        k == Len(o)
    IN IF k % 2 = 1 THEN 2 * o[(k + 1) \div 2] ELSE o[k \div 2] + o[k \div 2 + 1]

\* DataFrame.empty: any axis of length 0
df_empty(df) == df.n = 0 \/ Len(df.cols) = 0

-----------------------------------------------------------------------------
(* src/analizador.py *)

ING_HINTS == <<<<"m","o","n","t","o">>, <<"n","e","t","o">>, <<"t","o","t","a","l">>, <<"i","m","p","o","r","t","e">>, <<"f","a","c","t","u","r","a","c","i","o","n">>, <<"i","n","g","r","e","s","o">>, <<"v","e","n","t","a">>, <<"p","r","i","n","c","i","p","a","l">>>>

COST_HINTS == <<<<"c","o","s","t","o">>, <<"c","o","s","t","o","s">>, <<"g","a","s","t","o">>, <<"g","a","s","t","o","s">>, <<"i","n","s","u","m","o">>, <<"i","n","s","u","m","o","s">>,
                <<"r","e","p","u","e","s","t","o">>, <<"r","e","p","u","e","s","t","o","s">>, <<"p","i","n","t","u","r","a">>, <<"m","a","t","e","r","i","a","l">>, <<"m","a","t","e","r","i","a","l","e","s">>,
                <<"m","a","n","o"," ","d","e"," ","o","b","r","a">>, <<"m","o">>, <<"i","m","p","o","s","i","c","i","o","n">>, <<"i","m","p","o","s","i","c","i","o","n","e","s">>,
                <<"a","r","r","i","e","n","d","o">>, <<"a","d","m","i","n">>, <<"a","d","m","i","n","i","s","t","r","a","c","i","o","n">>, <<"e","q","u","i","p","o"," ","d","e"," ","p","l","a","n","t","a">>, <<"g","e","n","e","r","a","l","e","s">>,
                <<"f","i","n","a","n","c","i","e","r","o">>, <<"f","i","n","a","n","c","i","e","r","o","s">>, <<"i","n","t","e","r","e","s">>, <<"i","n","t","e","r","e","s","e","s">>>>

\* df[c] for a column label c
col(df, c) == df.cols[CHOOSE j \in 1..Len(df.cols) : df.cols[j].name = c]

\* s.notna().sum() > 0 for s = pd.to_numeric(df[c], errors="coerce")
has_numeric(column) == \E i \in 1..Len(column.vals) : ~to_numeric(column.vals[i]).null

RECURSIVE find_numeric_from(_, _, _)
find_numeric_from(df, keywords, j) ==
    IF j > Len(df.cols) THEN <<>>
    ELSE (IF any_in(keywords, _norm(df.cols[j].name)) /\ has_numeric(df.cols[j])
          THEN <<df.cols[j].name>> ELSE <<>>) \o find_numeric_from(df, keywords, j + 1)

_find_numeric_cols(df, keywords) == find_numeric_from(df, keywords, 1)

\* pd.to_numeric(df[c], errors="coerce").sum(): NaN is skipped
numeric_sum(column) ==
    SumSeq([i \in 1..Len(column.vals) |->
               LET x == to_numeric(column.vals[i]) IN IF x.null THEN 0 ELSE x.v])

\* float(pd.DataFrame({c: pd.to_numeric(df2[c], ...) for c in cols}).sum().sum()) if cols else 0.0
cols_sum(df, cols) == SumSeq([k \in 1..Len(cols) |-> numeric_sum(col(df, cols[k]))])

\* Series.nunique(dropna=True)
nunique(column) == Cardinality({column.vals[i] : i \in {i \in 1..Len(column.vals) : ~isna(column.vals[i])}})

SERVICE_KEYS == <<<<"p","a","t","e","n","t","e">>, <<"o","r","d","e","n">>, <<"o","c">>, <<"f","o","l","i","o">>, <<"d","o","c","u","m","e","n","t","o">>, <<"p","r","e","s","u","p","u","e","s","t","o">>, <<"i","d">>, <<"n","r","o">>, <<"n","u_acute","m","e","r","o">>, <<"n","u","m">>>>

\* (s > 0).sum() for s = pd.to_numeric(df[c], errors="coerce")
count_positive(column) ==
    Cardinality({i \in 1..Len(column.vals) :
                    LET x == to_numeric(column.vals[i]) IN ~x.null /\ x.v > 0})

\* variant: the columns are scanned first, the keywords second
_count_services_by_column(df) ==
    LET names == Tuple([j \in 1..Len(df.cols) |-> _norm(df.cols[j].name)])
        js == {j \in 1..Len(df.cols) : any_in(SERVICE_KEYS, names[j])}
    IN IF js # {}
       THEN nunique(df.cols[CHOOSE j \in js : \A x \in js : j <= x])
       ELSE LET ing_cols == _find_numeric_cols(df, ING_HINTS)
            IN IF ing_cols # <<>> THEN count_positive(col(df, ing_cols[1])) ELSE 0

_count_services(df) ==
    LET names == Tuple([j \in 1..Len(df.cols) |-> _norm(df.cols[j].name)])
        hit(k, j) == contains_lit(names[j], SERVICE_KEYS[k])
        ks == {k \in 1..Len(SERVICE_KEYS) : \E j \in 1..Len(df.cols) : hit(k, j)}
    IN IF ks # {}
       THEN LET k0 == CHOOSE k \in ks : \A x \in ks : k <= x
                j0 == CHOOSE j \in 1..Len(df.cols) :
                          hit(k0, j) /\ \A x \in 1..Len(df.cols) : hit(k0, x) => j <= x
            IN nunique(df.cols[j0])
       ELSE LET ing_cols == _find_numeric_cols(df, ING_HINTS)
            IN IF ing_cols # <<>> THEN count_positive(col(df, ing_cols[1])) ELSE 0

START_KEYS == <<<<"f","e","c","h","a"," ","i","n","g","r","e","s","o">>, <<"i","n","g","r","e","s","o">>, <<"r","e","c","e","p","c","i","o","n">>, <<"e","n","t","r","a","d","a">>>>
END_KEYS == <<<<"f","e","c","h","a"," ","s","a","l","i","d","a">>, <<"s","a","l","i","d","a">>, <<"e","n","t","r","e","g","a">>, <<"e","g","r","e","s","o">>, <<"t","e","r","m","i","n","o">>, <<"t","e_acute","r","m","i","n","o">>>>

\* the first column whose normalized label holds a keyword (0: None)
first_col(df, keywords) ==
    LET js == {j \in 1..Len(df.cols) : any_in(keywords, _norm(df.cols[j].name))}
    IN IF js = {} THEN 0 ELSE CHOOSE j \in js : \A x \in js : j <= x

\* variant: a delta of 365 days is kept
_lead_time_days_le365(df) ==
    LET start_col == first_col(df, START_KEYS)
        end_col == first_col(df, END_KEYS)
    IN IF start_col # 0 /\ end_col # 0
       THEN LET d == Tuple([i \in 1..df.n |->
                               delta_days(to_datetime(df.cols[end_col].vals[i]),
                                          to_datetime(df.cols[start_col].vals[i]))])
                keep == [i \in 1..df.n |-> ~d[i].null /\ d[i].v >= 0 /\ d[i].v <= 365]
                dd == SelectIdx([i \in 1..df.n |-> d[i].v], keep, 1)
            IN IF Len(dd) >= 3 THEN Some(median2(dd)) ELSE Null
       ELSE Null

_lead_time_days(df) ==
    LET start_col == first_col(df, START_KEYS)
        end_col == first_col(df, END_KEYS)
    IN IF start_col # 0 /\ end_col # 0
       THEN LET d == Tuple([i \in 1..df.n |->
                               delta_days(to_datetime(df.cols[end_col].vals[i]),
                                          to_datetime(df.cols[start_col].vals[i]))])
                keep == [i \in 1..df.n |-> ~d[i].null /\ d[i].v >= 0 /\ d[i].v < 365]
                dd == SelectIdx([i \in 1..df.n |-> d[i].v], keep, 1)
            IN IF Len(dd) >= 3 THEN Some(median2(dd)) ELSE Null
       ELSE Null

\* out[mask]: the rows i with mask[i]
take_rows(df, mask) ==
    [n |-> CountTrue(mask),
     cols |-> Tuple([j \in 1..Len(df.cols) |->
                        [name |-> df.cols[j].name, vals |-> SelectIdx(df.cols[j].vals, mask, 1)]])]

_apply_client_filter(df, client_substr, keeps_na) ==
    IF client_substr = <<>> THEN df
    ELSE LET cliente_col == first_col(df, <<<<"c","l","i","e","n","t","e">>>>)
         IN IF cliente_col # 0
            THEN take_rows(df, Tuple([i \in 1..df.n |->
                     str_contains_icase(astype_str(df.cols[cliente_col].vals[i], keeps_na),
                                        client_substr)]))
            ELSE df

\* variant: the denominator is the number of rows that fall in some bucket
sheet_conversion_rows(df2, keeps_na) ==
    LET est_col == first_col(df2, <<<<"e","s","t","a","d","o">>, <<"r","e","s","u","l","t","a","d","o">>>>)
    IN IF est_col # 0
       THEN LET est == Tuple([i \in 1..df2.n |-> astype_str(df2.cols[est_col].vals[i], keeps_na)])
                gan == CountTrue([i \in 1..df2.n |-> lower_contains(est[i], <<"g","a","n","a","d">>)])
                den == CountTrue([i \in 1..df2.n |-> lower_contains(est[i], <<"g","a","n","a","d">>)
                                                       \/ lower_contains(est[i], <<"p","e","r","d","i","d">>)
                                                       \/ lower_contains(est[i], <<"e","n","v","i","a","d">>)])
            IN IF den > 0 THEN Some(round2_pct(gan, den)) ELSE Null
       ELSE Null

\* lines 108-120: the conversion of one sheet (Null: `conversion` is not assigned)
sheet_conversion(df2, keeps_na) ==
    LET est_col == first_col(df2, <<<<"e","s","t","a","d","o">>, <<"r","e","s","u","l","t","a","d","o">>>>)
    IN IF est_col # 0
       THEN LET est == Tuple([i \in 1..df2.n |-> astype_str(df2.cols[est_col].vals[i], keeps_na)])
                gan == CountTrue([i \in 1..df2.n |-> lower_contains(est[i], <<"g","a","n","a","d">>)])
                per == CountTrue([i \in 1..df2.n |-> lower_contains(est[i], <<"p","e","r","d","i","d">>)])
                env == CountTrue([i \in 1..df2.n |-> lower_contains(est[i], <<"e","n","v","i","a","d">>)])
                den == gan + per + env
            IN IF den > 0 THEN Some(round2_pct(gan, den)) ELSE Null
       ELSE Null

\* variant: a column listed as revenue is not listed as cost
sheet_result_dedup(df, cliente, keeps_na) ==
    LET df2 == _apply_client_filter(df, cliente, keeps_na)
        ing_cols == _find_numeric_cols(df2, ING_HINTS)
        cost_cols == SelectSeq(_find_numeric_cols(df2, COST_HINTS),
                               LAMBDA c : \A k \in 1..Len(ing_cols) : ing_cols[k] # c)
    IN [filas |-> df2.n,
        ing_cols |-> ing_cols,
        cost_cols |-> cost_cols,
        ing_sum |-> IF ing_cols # <<>> THEN cols_sum(df2, ing_cols) ELSE 0,
        cost_sum |-> IF cost_cols # <<>> THEN cols_sum(df2, cost_cols) ELSE 0,
        services |-> _count_services(df2),
        conv |-> sheet_conversion(df2, keeps_na),
        lt |-> _lead_time_days(df2)]

\* lines 96-125: what one iteration computes from its sheet
sheet_result(df, cliente, keeps_na) ==
    LET df2 == _apply_client_filter(df, cliente, keeps_na)
        ing_cols == _find_numeric_cols(df2, ING_HINTS)
        cost_cols == _find_numeric_cols(df2, COST_HINTS)
    IN [filas |-> df2.n,
        ing_cols |-> ing_cols,
        cost_cols |-> cost_cols,
        ing_sum |-> IF ing_cols # <<>> THEN cols_sum(df2, ing_cols) ELSE 0,
        cost_sum |-> IF cost_cols # <<>> THEN cols_sum(df2, cost_cols) ELSE 0,
        services |-> _count_services(df2),
        conv |-> sheet_conversion(df2, keeps_na),
        lt |-> _lead_time_days(df2)]

\* variant: the running conversion and lead time are assigned whatever the sheet gives
sheet_step_reset(acc, hoja, r) ==
    [total_ing |-> acc.total_ing + r.ing_sum,
     total_cost |-> acc.total_cost + r.cost_sum,
     total_services |-> acc.total_services + r.services,
     conversion |-> r.conv,
     lead_time |-> r.lt,
     hojas |-> [k \in DOMAIN acc.hojas \cup {hoja} |->
                   IF k = hoja
                   THEN [filas |-> r.filas, ing_cols |-> r.ing_cols, cost_cols |-> r.cost_cols,
                         ingresos_hoja |-> r.ing_sum, costos_hoja |-> r.cost_sum]
                   ELSE acc.hojas[k]]]

\* variant: a sheet left without rows by the client filter is skipped as well
sheet_step_skip_unmatched(acc, hoja, r) ==
    IF r.filas = 0 THEN acc
    ELSE [total_ing |-> acc.total_ing + r.ing_sum,
          total_cost |-> acc.total_cost + r.cost_sum,
          total_services |-> acc.total_services + r.services,
          conversion |-> IF r.conv.null THEN acc.conversion ELSE r.conv,
          lead_time |-> IF r.lt.null THEN acc.lead_time ELSE r.lt,
          hojas |-> [k \in DOMAIN acc.hojas \cup {hoja} |->
                        IF k = hoja
                        THEN [filas |-> r.filas, ing_cols |-> r.ing_cols, cost_cols |-> r.cost_cols,
                              ingresos_hoja |-> r.ing_sum, costos_hoja |-> r.cost_sum]
                        ELSE acc.hojas[k]]]

\* lines 96-133: one iteration of the loop on a sheet that is not skipped
sheet_step(acc, hoja, r) ==
    [total_ing |-> acc.total_ing + r.ing_sum,
     total_cost |-> acc.total_cost + r.cost_sum,
     total_services |-> acc.total_services + r.services,
     conversion |-> IF r.conv.null THEN acc.conversion ELSE r.conv,
     lead_time |-> IF r.lt.null THEN acc.lead_time ELSE r.lt,
     hojas |-> [k \in DOMAIN acc.hojas \cup {hoja} |->
                   IF k = hoja
                   THEN [filas |-> r.filas, ing_cols |-> r.ing_cols, cost_cols |-> r.cost_cols,
                         ingresos_hoja |-> r.ing_sum, costos_hoja |-> r.cost_sum]
                   ELSE acc.hojas[k]]]

\* variant: only a sheet that is None is skipped
skipped_none_only(sheet) == sheet.isnone

\* line 93: `if df is None or df.empty: continue`
skipped(sheet) == sheet.isnone \/ df_empty(sheet.df)

\* variant: the margin is taken the other way round
make_report_swapped(acc) ==
    LET margen == acc.total_cost - acc.total_ing
        margen_pct == IF acc.total_ing # 0 THEN round2_pct(margen, acc.total_ing) ELSE 0
        ticket == IF acc.total_services # 0
                  THEN [null |-> FALSE, num |-> acc.total_ing, den |-> acc.total_services]
                  ELSE [null |-> TRUE, num |-> 0, den |-> 1]
    IN [ingresos |-> acc.total_ing,
        costos |-> acc.total_cost,
        margen |-> margen,
        margen_pct |-> margen_pct,
        servicios |-> acc.total_services,
        ticket_promedio |-> ticket,
        conversion_pct |-> acc.conversion,
        lead_time_mediano_dias |-> acc.lead_time,
        hojas |-> acc.hojas]

\* variant: a zero revenue is replaced by 1 in the division
make_report_divide_by_one(acc) ==
    LET margen == acc.total_ing - acc.total_cost
        margen_pct == round2_pct(margen, IF acc.total_ing # 0 THEN acc.total_ing ELSE 1)
        ticket == IF acc.total_services # 0
                  THEN [null |-> FALSE, num |-> acc.total_ing, den |-> acc.total_services]
                  ELSE [null |-> TRUE, num |-> 0, den |-> 1]
    IN [ingresos |-> acc.total_ing,
        costos |-> acc.total_cost,
        margen |-> margen,
        margen_pct |-> margen_pct,
        servicios |-> acc.total_services,
        ticket_promedio |-> ticket,
        conversion_pct |-> acc.conversion,
        lead_time_mediano_dias |-> acc.lead_time,
        hojas |-> acc.hojas]

\* lines 135-149
make_report(acc) ==
    LET margen == acc.total_ing - acc.total_cost
        margen_pct == IF acc.total_ing # 0 THEN round2_pct(margen, acc.total_ing) ELSE 0
        ticket == IF acc.total_services # 0
                  THEN [null |-> FALSE, num |-> acc.total_ing, den |-> acc.total_services]
                  ELSE [null |-> TRUE, num |-> 0, den |-> 1]
    IN [ingresos |-> acc.total_ing,
        costos |-> acc.total_cost,
        margen |-> margen,
        margen_pct |-> margen_pct,
        servicios |-> acc.total_services,
        ticket_promedio |-> ticket,
        conversion_pct |-> acc.conversion,
        lead_time_mediano_dias |-> acc.lead_time,
        hojas |-> acc.hojas]

\* lines 84-90
acc0 == [total_ing |-> 0, total_cost |-> 0, total_services |-> 0,
         conversion |-> Null, lead_time |-> Null, hojas |-> <<>>]

RECURSIVE run_loop(_, _, _, _, _)
run_loop(acc, d, i, cliente, keeps_na) ==
    IF i > Len(d) THEN acc
    ELSE run_loop(IF skipped(d[i]) THEN acc
                  ELSE sheet_step(acc, d[i].hoja, sheet_result(d[i].df, cliente, keeps_na)),
                  d, i + 1, cliente, keeps_na)

\* the whole call
analizar_datos_taller(d, cliente, keeps_na) == make_report(run_loop(acc0, d, 1, cliente, keeps_na))

-----------------------------------------------------------------------------
(* Inputs of the aggregation runs *)
Column(name, vals) == [name |-> name, vals |-> vals]
Frame(n, cols) == [n |-> n, cols |-> cols]
\* an item of data.items(): the key and the DataFrame, or None
Sheet(hoja, df) == [hoja |-> hoja, isnone |-> FALSE, df |-> df]
NoneSheet(hoja) == [hoja |-> hoja, isnone |-> TRUE, df |-> Frame(0, <<>>)]

Ventas ==
    Frame(4, << Column(<<"C","l","i","e","n","t","e">>, <<Txt(<<"A","C","M","E">>), NaN, Txt(<<"N","a","n","o">>), Txt(<<"a","c","m","e"," ","s","a">>)>>),
                Column(<<"M","o","n","t","o">>, <<Num(100), Txt(<<"5","0">>), Txt(<<"x">>), Num(30)>>),
                Column(<<"O","r","d","e","n">>, <<Num(1), Num(1), Num(2), Num(3)>>),
                Column(<<"E","s","t","a","d","o">>, <<Txt(<<"G","a","n","a","d","o">>), Txt(<<"P","e","r","d","i","d","o">>), Txt(<<"E","n","v","i","a","d","o">>), Txt(<<"g","a","n","a","d","o">>)>>) >>)

Costos ==
    Frame(2, << Column(<<" ","C","O","S","T","O"," ">>, <<Num(150), Num(250)>>),
                Column(<<"O","b","s">>, <<Txt(<<"p","i","n","t","u","r","a">>), NaN>>) >>)

Totales ==
    Frame(3, << Column(<<"T","o","t","a","l">>, <<Num(600), Num(0), Num(400)>>) >>)

Taller ==
    Frame(4, << Column(<<"c","l","i","e","n","t","e">>, <<Txt(<<"N","a","n","o">>), None, Txt(<<"A","C","M","E">>), Txt(<<"B","a","n","c","o">>)>>),
                Column(<<"F","e","c","h","a"," ","I","n","g","r","e","s","o">>, <<Txt(<<"2","0","2","4","-","0","1","-","0","1">>), Txt(<<"2","0","2","4","-","0","1","-","0","1">>), Txt(<<"2","0","2","4","-","0","2","-","2","7">>), Txt(<<"2","0","2","4","-","0","3","-","0","1">>)>>),
                Column(<<"F","e","c","h","a"," ","S","a","l","i","d","a">>, <<Txt(<<"2","0","2","4","-","0","1","-","0","3">>), Txt(<<"2","0","2","4","-","0","1","-","0","5">>), Txt(<<"2","0","2","4","-","0","3","-","0","4">>), NaN>>),
                Column(<<"N","e","t","o">>, <<Num(10), Num(20), Num(30), Num(40)>>) >>)

Entregas ==
    Frame(3, << Column(<<"R","e","c","e","p","c","i","o","n">>, <<Txt(<<"2","0","2","4","-","0","5","-","0","1">>), Txt(<<"2","0","2","4","-","0","5","-","0","1">>), Txt(<<"2","0","2","4","-","0","5","-","0","1">>)>>),
                Column(<<"E","n","t","r","e","g","a">>, <<Txt(<<"2","0","2","4","-","0","5","-","0","2">>), Txt(<<"2","0","2","4","-","0","5","-","0","2">>), Txt(<<"2","0","2","4","-","0","5","-","1","1">>)>>),
                Column(<<"R","e","s","u","l","t","a","d","o">>, <<Txt(<<"G","A","N","A","D","O">>), Txt(<<"o","t","r","o">>), NaN>>) >>)

Pendientes ==
    Frame(3, << Column(<<"C","l","i","e","n","t","e">>, <<Txt(<<"a","c","m","e">>), Txt(<<"n","a","d","i","e">>), NaN>>),
                Column(<<"E","s","t","a","d","o">>, <<Txt(<<"p","e","n","d","i","e","n","t","e">>), NaN, Txt(<<"o","t","r","o">>)>>),
                Column(<<"I","n","g","r","e","s","o">>, <<Txt(<<"2","0","2","4","-","0","1","-","0","1">>), Txt(<<"2","0","2","3","-","0","1","-","0","1">>), Txt(<<"s","i","n"," ","f","e","c","h","a">>)>>),
                Column(<<"S","a","l","i","d","a">>, <<Txt(<<"2","0","2","3","-","1","2","-","3","1">>), Txt(<<"2","0","2","4","-","0","1","-","0","1">>), Txt(<<"2","0","2","4","-","0","1","-","0","1">>)>>) >>)

Mixto ==
    Frame(2, << Column(<<"R","e","s","u","l","t","a","d","o">>, <<Txt(<<"G","a","n","a","d","o"," ","y"," ","e","n","v","i","a","d","o">>), Txt(<<"p","e","r","d","i","d","o">>)>>),
                Column(<<"P","a","t","e","n","t","e">>, <<NaN, None>>),
                Column(<<"V","e","n","t","a">>, <<Num(70), Num(-20)>>) >>)

SinFilas == Frame(0, << Column(<<"T","o","t","a","l">>, <<>>), Column(<<"C","l","i","e","n","t","e">>, <<>>) >>)

SinColumnas == Frame(2, <<>>)

Library == <<Ventas, Costos, Totales, Taller, Entregas, Pendientes, Mixto, SinFilas, SinColumnas>>
Frames == {Library[i] : i \in 1..Len(Library)}

\* the dataset with the keys 1, 2, .. in iteration order; f[i] = 0 is None and
\* f[i] = j the j-th DataFrame of the library
Dataset(f) == Tuple([i \in 1..Len(f) |-> IF f[i] = 0 THEN NoneSheet(i) ELSE Sheet(i, Library[f[i]])])

ClientSubstrings == {<<>>, <<"n","a">>, <<"z","z">>}

\* sheet_result of every sheet of the library, computed once
LibraryResult ==
    [df \in Frames, c \in ClientSubstrings, k \in BOOLEAN |-> sheet_result(df, c, k)]

-----------------------------------------------------------------------------
(* The aggregation run, one step per item of data.items() *)
NoCall == [fn |-> "none"]

Init ==
    /\ astype_keeps_na \in BOOLEAN
    /\ \E k \in 0..MaxSheets : \E f \in [1..k -> 0..Len(Library)] : data = Dataset(f)
    /\ cliente_contiene \in ClientSubstrings
    /\ pc = "loop"
    /\ pos = 0
    /\ total_ing = 0
    /\ total_cost = 0
    /\ total_services = 0
    /\ conversion = Null
    /\ lead_time = Null
    /\ hojas = <<>>
    /\ report = Null
    /\ call = NoCall

locals == [total_ing |-> total_ing, total_cost |-> total_cost, total_services |-> total_services,
           conversion |-> conversion, lead_time |-> lead_time, hojas |-> hojas]

SkipSheet ==
    /\ pc = "loop"
    /\ pos < Len(data)
    /\ skipped(data[pos + 1])
    /\ pos' = pos + 1
    /\ UNCHANGED <<astype_keeps_na, data, cliente_contiene, pc, total_ing, total_cost,
                   total_services, conversion, lead_time, hojas, report, call>>

ProcessSheet ==
    /\ pc = "loop"
    /\ pos < Len(data)
    /\ ~skipped(data[pos + 1])
    /\ LET a == sheet_step(locals, data[pos + 1].hoja,
                           LibraryResult[data[pos + 1].df, cliente_contiene, astype_keeps_na])
       IN /\ total_ing' = a.total_ing
          /\ total_cost' = a.total_cost
          /\ total_services' = a.total_services
          /\ conversion' = a.conversion
          /\ lead_time' = a.lead_time
          /\ hojas' = a.hojas
    /\ pos' = pos + 1
    /\ UNCHANGED <<astype_keeps_na, data, cliente_contiene, pc, report, call>>

Return ==
    /\ pc = "loop"
    /\ pos = Len(data)
    /\ report' = make_report(locals)
    /\ pc' = "done"
    /\ UNCHANGED <<astype_keeps_na, data, cliente_contiene, pos, total_ing, total_cost,
                   total_services, conversion, lead_time, hojas, call>>

Next == SkipSheet \/ ProcessSheet \/ Return

Spec == Init /\ [][Next]_vars

-----------------------------------------------------------------------------
(* Direct calls of the functions on generated tables *)
MaxRows == 4
MaxCols == 2

\* every generated table gets a last column "Fila" numbering its rows
Fila(n) == Column(<<"F","i","l","a">>, Tuple([i \in 1..n |-> Num(i)]))

ClientHeaders == {<<" ","C","L","I","E","N","T","E"," ">>, <<"N","o","m","b","r","e">>}
ClientCells == {Txt(<<"A","C","M","E">>), Txt(<<"N","a","n","o">>), NaN, None}
FilterSubstrings == {<<>>, <<"a","c">>, <<"n","a">>, <<"n","o">>}
\* a table of a client-like or other column with the cells v
FilterTable(h, v) == Frame(Len(v), <<Column(h, v), Fila(Len(v))>>)

CountHeaders == {<<"O","r","d","e","n">>, <<"D","o","c","u","m","e","n","t","o">>, <<"U","n","i","d","a","d">>, <<"T","o","t","a","l">>, <<"O","b","s">>}
\* per column one of three fillings: repeated identifiers 1,1,2,3,.. ; all missing ;
\* a missing cell, then 0, 1, 2, ..
CountFill(kind, n) ==
    Tuple([i \in 1..n |->
              CASE kind = 1 -> Num(IF i = 1 THEN 1 ELSE i - 1)
                [] kind = 2 -> (IF i % 2 = 1 THEN NaN ELSE None)
                [] OTHER -> (IF i = 1 THEN NaN ELSE Num(i - 2))])
Distinct(hs) == \A a, b \in 1..Len(hs) : a # b => hs[a] # hs[b]
\* a table of n rows with the labels hs, column j filled in the way ks[j]
CountTable(n, hs, ks) == Frame(n, Tuple([j \in 1..Len(hs) |-> Column(hs[j], CountFill(ks[j], n))]))

\* a row of a dated table: (start cell, end cell)
DateRows ==
    { <<Txt(<<"2","0","2","4","-","0","1","-","0","1">>), Txt(<<"2","0","2","4","-","0","1","-","0","3">>)>>,
      <<Txt(<<"2","0","2","4","-","0","1","-","0","1">>), Txt(<<"2","0","2","4","-","0","1","-","0","5">>)>>,
      <<Txt(<<"2","0","2","4","-","0","1","-","0","1">>), Txt(<<"2","0","2","4","-","0","1","-","0","7">>)>>,
      <<Txt(<<"2","0","2","4","-","0","3","-","0","1">>), Txt(<<"2","0","2","4","-","0","2","-","2","9">>)>>,
      <<Txt(<<"2","0","2","4","-","0","3","-","0","1">>), Txt(<<"2","0","2","5","-","0","3","-","0","1">>)>>,
      <<NaN, Txt(<<"2","0","2","4","-","0","1","-","0","3">>)>> }
\* (label of the first column, label of the second, which holds the start cells)
DateLayouts == { <<<<"F","e","c","h","a"," ","I","n","g","r","e","s","o">>, <<" ","E","N","T","R","E","G","A"," ">>, 1>>, <<<<"S","a","l","i","d","a">>, <<"R","e","c","e","p","c","i","o","n">>, 2>>, <<<<"F","e","c","h","a"," ","I","n","g","r","e","s","o">>, <<"O","b","s">>, 1>> }
\* a table of two columns with the rows rs
DateTable(lay, rs) ==
    Frame(Len(rs), << Column(lay[1], Tuple([i \in 1..Len(rs) |-> rs[i][lay[3]]])),
                      Column(lay[2], Tuple([i \in 1..Len(rs) |-> rs[i][3 - lay[3]]])) >>)

StatusHeaders == {<<"E","s","t","a","d","o">>, <<" ","R","E","S","U","L","T","A","D","O"," ","f","i","n","a","l">>}
StatusCells == {Txt(<<"G","a","n","a","d","o">>), Txt(<<"P","e","r","d","i","d","o">>), Txt(<<"E","n","v","i","a","d","o">>), Txt(<<"g","a","n","a","d","o">>),
                Txt(<<"G","A","N","A","D","O"," ","y"," ","e","n","v","i","a","d","o">>), NaN}
StatusTable(h, v) == Frame(Len(v), <<Column(h, v)>>)

InitCalls ==
    /\ astype_keeps_na \in BOOLEAN
    /\ data = <<>>
    /\ cliente_contiene = <<>>
    /\ pc = "idle"
    /\ pos = 0
    /\ total_ing = 0
    /\ total_cost = 0
    /\ total_services = 0
    /\ conversion = Null
    /\ lead_time = Null
    /\ hojas = <<>>
    /\ report = Null
    /\ call = NoCall

Unused == <<astype_keeps_na, data, cliente_contiene, pc, pos, total_ing, total_cost,
            total_services, conversion, lead_time, hojas, report>>

CallFilter ==
    /\ call = NoCall
    /\ \E n \in 0..MaxRows : \E v \in [1..n -> ClientCells] : \E h \in ClientHeaders :
       \E s \in FilterSubstrings :
          LET df == FilterTable(h, v)
          IN call' = [fn |-> "_apply_client_filter", df |-> df, arg |-> s,
                      ret |-> _apply_client_filter(df, s, astype_keeps_na)]
    /\ UNCHANGED Unused

CallCount ==
    /\ call = NoCall
    /\ \E n \in 0..MaxRows : \E k \in 1..MaxCols : \E hs \in [1..k -> CountHeaders] :
       \E ks \in [1..k -> 1..3] :
          /\ Distinct(hs)
          /\ LET df == CountTable(n, hs, ks)
             IN call' = [fn |-> "_count_services", df |-> df, arg |-> <<>>,
                         ret |-> _count_services(df)]
    /\ UNCHANGED Unused

CallLeadTime ==
    /\ call = NoCall
    /\ \E n \in 0..MaxRows : \E rs \in [1..n -> DateRows] : \E lay \in DateLayouts :
          LET df == DateTable(lay, rs)
          IN call' = [fn |-> "_lead_time_days", df |-> df, arg |-> <<>>,
                      ret |-> _lead_time_days(df)]
    /\ UNCHANGED Unused

\* analizar_datos_taller({"1": df}) on a one-sheet dataset, as one step
CallAnalizar ==
    /\ call = NoCall
    /\ \E n \in 1..MaxRows : \E v \in [1..n -> StatusCells] : \E h \in StatusHeaders :
          LET df == StatusTable(h, v)
          IN call' = [fn |-> "analizar_datos_taller", df |-> df, arg |-> <<>>,
                      ret |-> analizar_datos_taller(<<Sheet(1, df)>>, <<>>, astype_keeps_na)]
    /\ UNCHANGED Unused

NextCalls == CallFilter \/ CallAnalizar

\* calls of the functions that stringify cells, under either pandas build
SpecCalls == InitCalls /\ [][NextCalls]_vars

\* _count_services and _lead_time_days never call astype(str)
InitTables ==
    /\ astype_keeps_na = FALSE
    /\ data = <<>>
    /\ cliente_contiene = <<>>
    /\ pc = "idle"
    /\ pos = 0
    /\ total_ing = 0
    /\ total_cost = 0
    /\ total_services = 0
    /\ conversion = Null
    /\ lead_time = Null
    /\ hojas = <<>>
    /\ report = Null
    /\ call = NoCall

NextTables == CallCount \/ CallLeadTime

SpecTables == InitTables /\ [][NextTables]_vars

-----------------------------------------------------------------------------
(* Properties of the aggregation run (Spec) *)

\* what the run computes from the i-th sheet of the dataset
ResultOf(i) == LibraryResult[data[i].df, cliente_contiene, astype_keeps_na]

RECURSIVE LastConv(_)
\* the conversion estimate of the last of the first n sheets that is processed and has one
LastConv(n) ==
    IF n = 0 THEN Null
    ELSE IF ~skipped(data[n]) /\ ~ResultOf(n).conv.null THEN ResultOf(n).conv
    ELSE LastConv(n - 1)

RECURSIVE LastLead(_)
LastLead(n) ==
    IF n = 0 THEN Null
    ELSE IF ~skipped(data[n]) /\ ~ResultOf(n).lt.null THEN ResultOf(n).lt
    ELSE LastLead(n - 1)

\* C1: after any number of sheets the running conversion and lead time are the
\* estimates of the last processed sheet that has a non-null one (null when none
\* has); a later sheet with a null estimate changes nothing and nothing is
\* averaged; the report returns these values.
C1_LastNonNullWins ==
    pc \in {"loop", "done"} =>
        /\ conversion = LastConv(pos)
        /\ lead_time = LastLead(pos)
        /\ pc = "done" =>
              /\ report.conversion_pct = LastConv(Len(data))
              /\ report.lead_time_mediano_dias = LastLead(Len(data))

\* C1 witness: a sheet with both estimates is followed by a processed sheet with
\* neither, and the report holds the first sheet's values.
C1_Witness ==
    /\ pc = "done" /\ Len(data) = 2
    /\ ~skipped(data[1]) /\ ~skipped(data[2])
    /\ ~ResultOf(1).conv.null /\ ~ResultOf(1).lt.null
    /\ ResultOf(2).conv.null /\ ResultOf(2).lt.null
    /\ report.conversion_pct = ResultOf(1).conv
    /\ report.lead_time_mediano_dias = ResultOf(1).lt

\* C3: every report has margen = ingresos - costos.
C3_MarginIsRevenueMinusCost ==
    pc = "done" => report.margen = report.ingresos - report.costos

\* C3 witness: a report of a filtered dataset with revenue and cost both non-zero
\* and different.
C3_Witness ==
    /\ pc = "done" /\ cliente_contiene # <<>>
    /\ report.ingresos # 0 /\ report.costos # 0 /\ report.ingresos # report.costos

\* C4: a report with ingresos = 0 has margen_pct exactly 0.
C4_ZeroRevenueZeroMarginPct ==
    (pc = "done" /\ report.ingresos = 0) => report.margen_pct = 0

\* C4 witness: a report with no revenue and a non-zero cost.
C4_Witness == pc = "done" /\ report.ingresos = 0 /\ report.costos # 0

\* the table the loop works on for sheet i
Filtered(i) == _apply_client_filter(data[i].df, cliente_contiene, astype_keeps_na)

BothHints(name) == any_in(ING_HINTS, _norm(name)) /\ any_in(COST_HINTS, _norm(name))

\* the sum of the parsed values of the columns of df whose label holds one of
\* the keywords and that hold a number
HintedSum(df, keywords) ==
    SumSeq([j \in 1..Len(df.cols) |->
               IF any_in(keywords, _norm(df.cols[j].name)) /\ has_numeric(df.cols[j])
               THEN numeric_sum(df.cols[j]) ELSE 0])

InSeq(x, s) == \E k \in 1..Len(s) : s[k] = x

\* C8: a column whose label holds a revenue keyword and a cost keyword and that
\* holds a number is listed in both ing_cols and cost_cols of its sheet, and its
\* sum is part of the sheet's revenue and of its cost, hence of both totals.
C8_AmbiguousColumnCountsTwice ==
    pc \in {"loop", "done"} =>
        /\ \A i \in 1..pos :
              ~skipped(data[i]) =>
                  /\ i \in DOMAIN hojas
                  /\ \A j \in 1..Len(Filtered(i).cols) :
                        (BothHints(Filtered(i).cols[j].name) /\ has_numeric(Filtered(i).cols[j])) =>
                            /\ InSeq(Filtered(i).cols[j].name, hojas[i].ing_cols)
                            /\ InSeq(Filtered(i).cols[j].name, hojas[i].cost_cols)
                  /\ hojas[i].ingresos_hoja = HintedSum(Filtered(i), ING_HINTS)
                  /\ hojas[i].costos_hoja = HintedSum(Filtered(i), COST_HINTS)
        /\ total_ing = SumSeq([i \in 1..pos |-> IF skipped(data[i]) THEN 0 ELSE HintedSum(Filtered(i), ING_HINTS)])
        /\ total_cost = SumSeq([i \in 1..pos |-> IF skipped(data[i]) THEN 0 ELSE HintedSum(Filtered(i), COST_HINTS)])

\* C8 witness: a processed sheet with a "Monto" column of non-zero sum, counted
\* as revenue and as cost.
C8_Witness ==
    /\ pc = "done" /\ Len(data) = 1 /\ ~skipped(data[1])
    /\ \E j \in 1..Len(Filtered(1).cols) :
          /\ Filtered(1).cols[j].name = <<"M","o","n","t","o">>
          /\ numeric_sum(Filtered(1).cols[j]) # 0
          /\ report.ingresos = numeric_sum(Filtered(1).cols[j])
          /\ report.costos = numeric_sum(Filtered(1).cols[j])

\* an absent sheet or one with zero rows
AbsentOrNoRows(sheet) == sheet.isnone \/ sheet.df.n = 0

\* the report of a dataset of library sheets
RECURSIVE LibraryLoop(_, _, _)
LibraryLoop(acc, d, i) ==
    IF i > Len(d) THEN acc
    ELSE LibraryLoop(IF skipped(d[i]) THEN acc
                     ELSE sheet_step(acc, d[i].hoja, LibraryResult[d[i].df, cliente_contiene, astype_keeps_na]),
                     d, i + 1)

\* C9: a step on an absent sheet or on one with zero rows changes none of the
\* totals, running values or hojas; the report has no key for such a sheet and
\* is the report of the dataset without these sheets.
C9_AbsentOrEmptySkipped ==
    /\ [][(pc = "loop" /\ pos < Len(data) /\ AbsentOrNoRows(data[pos + 1])) =>
             UNCHANGED <<total_ing, total_cost, total_services, conversion, lead_time, hojas>>]_vars
    /\ [](pc = "done" =>
             /\ \A i \in 1..Len(data) : AbsentOrNoRows(data[i]) => data[i].hoja \notin DOMAIN report.hojas
             /\ report = make_report(LibraryLoop(acc0, SelectSeq(data, LAMBDA s : ~AbsentOrNoRows(s)), 1)))

\* C9 witness: a report of a dataset whose first sheet was processed and whose
\* second sheet has columns and zero rows.
C9_Witness ==
    /\ pc = "done" /\ Len(data) = 2
    /\ ~AbsentOrNoRows(data[1]) /\ 1 \in DOMAIN report.hojas
    /\ ~data[2].isnone /\ data[2].df.n = 0 /\ Len(data[2].df.cols) > 0

\* a sheet with rows of which the client filter keeps none
FilteredToNothing(i) == ~data[i].isnone /\ data[i].df.n >= 1 /\ ResultOf(i).filas = 0

EmptySummary == [filas |-> 0, ing_cols |-> <<>>, cost_cols |-> <<>>, ingresos_hoja |-> 0, costos_hoja |-> 0]

\* C10: a sheet that has rows before the client filter and none after it is not
\* skipped: its step adds nothing to the totals, leaves the running conversion
\* and lead time alone and records a summary of zero rows, no columns and zero
\* sums; the keys of hojas are the sheets that are not None and not empty
\* (DataFrame.empty) before filtering.
C10_FilteredToNothingStillRecorded ==
    /\ [][(pc = "loop" /\ pos < Len(data) /\ FilteredToNothing(pos + 1)) =>
             /\ total_ing' = total_ing /\ total_cost' = total_cost
             /\ total_services' = total_services
             /\ conversion' = conversion /\ lead_time' = lead_time
             /\ DOMAIN hojas' = DOMAIN hojas \cup {data[pos + 1].hoja}
             /\ hojas'[data[pos + 1].hoja] = EmptySummary]_vars
    /\ [](pc = "done" =>
             DOMAIN report.hojas =
                 {data[i].hoja : i \in {i \in 1..Len(data) : ~data[i].isnone /\ ~df_empty(data[i].df)}})

\* C10 witness: a report with a key for a sheet whose rows the filter all dropped.
C10_Witness ==
    /\ pc = "done" /\ cliente_contiene # <<>>
    /\ \E i \in 1..Len(data) :
          FilteredToNothing(i) /\ data[i].hoja \in DOMAIN report.hojas
              /\ report.hojas[data[i].hoja].filas = 0

-----------------------------------------------------------------------------
(* Properties of the direct calls (SpecCalls, SpecTables) *)

\* the text of a cell that is present
CellText(c) == IF c.t = "num" THEN intStr(c.n) ELSE c.s

\* s contains k, letter case ignored
ContainsNoCase(s, k) ==
    \E i \in 0..(Len(s) - Len(k)) : \A j \in 1..Len(k) : lowerChar(s[i + j]) = lowerChar(k[j])

HasClientColumn(df) == \E j \in 1..Len(df.cols) : contains_lit(_norm(df.cols[j].name), <<"c","l","i","e","n","t","e">>)

FirstClientColumn(df) ==
    CHOOSE j \in 1..Len(df.cols) :
        /\ contains_lit(_norm(df.cols[j].name), <<"c","l","i","e","n","t","e">>)
        /\ \A x \in 1..(j - 1) : ~contains_lit(_norm(df.cols[x].name), <<"c","l","i","e","n","t","e">>)

\* the row numbers (column "Fila") of a generated table
RowNumbers(df) == {col(df, <<"F","i","l","a">>).vals[i].n : i \in 1..df.n}

\* C2: with a non-empty substring and a client column, the rows kept are
\* exactly those whose client cell is present and whose text contains the
\* substring, letter case ignored; a row whose client cell is missing is never
\* kept.
C2_KeepsExactlyMatchingRows ==
    (call.fn = "_apply_client_filter" /\ call.arg # <<>> /\ HasClientColumn(call.df)) =>
        RowNumbers(call.ret) =
            {i \in 1..call.df.n :
                LET c == call.df.cols[FirstClientColumn(call.df)].vals[i]
                IN ~isna(c) /\ ContainsNoCase(CellText(c), call.arg)}

IdentifierKeywords == <<<<"p","a","t","e","n","t","e">>, <<"o","r","d","e","n">>, <<"o","c">>, <<"f","o","l","i","o">>, <<"d","o","c","u","m","e","n","t","o">>, <<"p","r","e","s","u","p","u","e","s","t","o">>, <<"i","d">>, <<"n","r","o">>, <<"n","u_acute","m","e","r","o">>, <<"n","u","m">>>>

HeaderHas(df, j, k) == contains_lit(_norm(df.cols[j].name), k)

DistinctPresent(column) ==
    Cardinality({column.vals[i] : i \in {x \in 1..Len(column.vals) : ~isna(column.vals[x])}})

RECURSIVE FirstColumnWith(_, _, _)
\* the first column, from the j-th on, whose normalized label contains k
FirstColumnWith(df, k, j) == IF HeaderHas(df, j, k) THEN j ELSE FirstColumnWith(df, k, j + 1)

RevenueFallback(df) ==
    LET rev == {j \in 1..Len(df.cols) : any_in(ING_HINTS, _norm(df.cols[j].name)) /\ has_numeric(df.cols[j])}
    IN IF rev = {} THEN 0
       ELSE LET j0 == CHOOSE j \in rev : \A x \in rev : j <= x
            IN Cardinality({i \in 1..df.n : LET x == to_numeric(df.cols[j0].vals[i])
                                            IN ~x.null /\ x.v > 0})

RECURSIVE ScanServiceKeys(_, _)
ScanServiceKeys(df, k) ==
    IF k > Len(IdentifierKeywords) THEN RevenueFallback(df)
    ELSE IF \E j \in 1..Len(df.cols) : HeaderHas(df, j, IdentifierKeywords[k])
         THEN DistinctPresent(df.cols[FirstColumnWith(df, IdentifierKeywords[k], 1)])
         ELSE ScanServiceKeys(df, k + 1)

\* C5: _count_services takes the identifier keywords in their priority order;
\* for the first keyword some normalized label contains it returns the number of
\* distinct non-missing values of the first such column, wherever a column of a
\* lower keyword stands; only when no label contains a keyword does it return
\* the number of rows with a positive value in the first revenue column, or 0.
C5_ServiceCount ==
    call.fn = "_count_services" => call.ret = ScanServiceKeys(call.df, 1)

\* C5 witness: "Unidad" (keyword id, all missing) stands before "Orden" with
\* 1, 1, 2, 3 and the count is 3.
C5_Witness ==
    /\ call.fn = "_count_services"
    /\ call.df.n = 4 /\ Len(call.df.cols) = 2
    /\ call.df.cols[1].name = <<"U","n","i","d","a","d">> /\ \A i \in 1..4 : isna(call.df.cols[1].vals[i])
    /\ call.df.cols[2] = Column(<<"O","r","d","e","n">>, <<Num(1), Num(1), Num(2), Num(3)>>)
    /\ call.ret = 3

HasStart(df) == \E j \in 1..Len(df.cols) : any_in(START_KEYS, _norm(df.cols[j].name))
HasEnd(df) == \E j \in 1..Len(df.cols) : any_in(END_KEYS, _norm(df.cols[j].name))
StartCol(df) == CHOOSE j \in 1..Len(df.cols) :
                    /\ any_in(START_KEYS, _norm(df.cols[j].name))
                    /\ \A x \in 1..(j - 1) : ~any_in(START_KEYS, _norm(df.cols[x].name))
EndCol(df) == CHOOSE j \in 1..Len(df.cols) :
                  /\ any_in(END_KEYS, _norm(df.cols[j].name))
                  /\ \A x \in 1..(j - 1) : ~any_in(END_KEYS, _norm(df.cols[x].name))

\* end - start of every row in whole days
RowDeltas(df) ==
    Tuple([i \in 1..df.n |->
              delta_days(to_datetime(df.cols[EndCol(df)].vals[i]), to_datetime(df.cols[StartCol(df)].vals[i]))])

\* the rows with a delta d, 0 <= d < 365, given the deltas of all rows
Qualifying(ds) == {i \in 1..Len(ds) : ~ds[i].null /\ ds[i].v >= 0 /\ ds[i].v < 365}

\* the k-th smallest of the deltas of the rows in q
KthDelta(ds, q, k) ==
    CHOOSE v \in {ds[i].v : i \in q} :
        /\ Cardinality({i \in q : ds[i].v < v}) < k
        /\ Cardinality({i \in q : ds[i].v <= v}) >= k

\* twice the median of the deltas of the rows in q
TwiceMedian(ds, q) ==
    LET m == Cardinality(q)
    IN KthDelta(ds, q, (m + 1) \div 2) + KthDelta(ds, q, m \div 2 + 1)

\* C6: _lead_time_days returns a value exactly when a start column and an end
\* column are found and at least 3 rows have a delta d with 0 <= d < 365, and
\* the value is the median of the deltas of exactly these rows.
C6_LeadTimeMedian ==
    call.fn = "_lead_time_days" =>
        IF HasStart(call.df) /\ HasEnd(call.df)
        THEN LET ds == RowDeltas(call.df)
                 q == Qualifying(ds)
             IN IF Cardinality(q) >= 3 THEN call.ret = Some(TwiceMedian(ds, q)) ELSE call.ret = Null
        ELSE call.ret = Null

\* C6 witness: four rows, one of them with a delta out of range, the other
\* three with the deltas 2, 4 and 6, and the result 4.0.
C6_Witness ==
    /\ call.fn = "_lead_time_days"
    /\ call.df.n = 4 /\ HasStart(call.df) /\ HasEnd(call.df)
    /\ LET ds == RowDeltas(call.df)
           q == Qualifying(ds)
       IN /\ Cardinality(q) = 3
          /\ {ds[i].v : i \in q} = {2, 4, 6}
          /\ \E i \in 1..4 : ~ds[i].null /\ ds[i].v >= 365
    /\ call.ret = Some(8)

HasStatus(df) ==
    \E j \in 1..Len(df.cols) : contains_lit(_norm(df.cols[j].name), <<"e","s","t","a","d","o">>)
                               \/ contains_lit(_norm(df.cols[j].name), <<"r","e","s","u","l","t","a","d","o">>)
StatusCol(df) ==
    CHOOSE j \in 1..Len(df.cols) :
        /\ contains_lit(_norm(df.cols[j].name), <<"e","s","t","a","d","o">>) \/ contains_lit(_norm(df.cols[j].name), <<"r","e","s","u","l","t","a","d","o">>)
        /\ \A x \in 1..(j - 1) : ~(contains_lit(_norm(df.cols[x].name), <<"e","s","t","a","d","o">>)
                                   \/ contains_lit(_norm(df.cols[x].name), <<"r","e","s","u","l","t","a","d","o">>))

\* the number of cells of the status column whose lowercased text contains word
Bucket(df, word, keeps_na) ==
    Cardinality({i \in 1..df.n :
        LET t == astype_str(df.cols[StatusCol(df)].vals[i], keeps_na)
        IN ~t.null /\ ContainsNoCase(t.v, word)})

\* C7: on a sheet with a status column the conversion counts the cells of each
\* of the buckets ganad, perdid, enviad on their own, divides the won count by
\* the sum of the three counts, is null when that sum is 0 and else is
\* won / sum * 100 rounded to two decimals, between 0 and 100.
C7_Conversion ==
    (call.fn = "analizar_datos_taller" /\ HasStatus(call.df)) =>
        LET won == Bucket(call.df, <<"g","a","n","a","d">>, astype_keeps_na)
            lost == Bucket(call.df, <<"p","e","r","d","i","d">>, astype_keeps_na)
            sent == Bucket(call.df, <<"e","n","v","i","a","d">>, astype_keeps_na)
            den == won + lost + sent
            got == call.ret.conversion_pct
        IN IF den = 0 THEN got = Null
           ELSE /\ ~got.null
                /\ got.v \in 0..10000
                /\ 2 * (got.v * den - 10000 * won) <= den
                /\ 2 * (10000 * won - got.v * den) <= den

\* C7 witness: Ganado, Perdido, Enviado, ganado give 50.0.
C7_Witness ==
    /\ call.fn = "analizar_datos_taller"
    /\ call.df.n = 4
    /\ call.df.cols[1].vals = <<Txt(<<"G","a","n","a","d","o">>), Txt(<<"P","e","r","d","i","d","o">>), Txt(<<"E","n","v","i","a","d","o">>), Txt(<<"g","a","n","a","d","o">>)>>
    /\ call.ret.conversion_pct = Some(5000)
====
